---- MODULE Spec2Model ----
(***************************************************************************)
(* Model of apps/api-python/app/main.py: a FastAPI application instance    *)
(* `app` with one registered endpoint, read_root, bound to GET "/".        *)
(*                                                                         *)
(* The state is the application instance (its route table and its cached   *)
(* OpenAPI schema), the position of the module's top-level code, and the   *)
(* requests the host server has in flight, one per worker slot.            *)
(*                                                                         *)
(* A path is the sequence of its tokens, "/" separators included:          *)
(* "/" is <<"/">>, "/docs/" is <<"/", "docs", "/">>.                       *)
(***************************************************************************)
EXTENDS Naturals, Sequences, FiniteSets, TLC

\* Number of requests the host server serves at the same time.
NumWorkers == 2

Workers == 1..NumWorkers

VARIABLES
    module_pc,       \* position in main.py's top-level code
    routes,          \* app.router.routes, in registration order
    openapi_schema,  \* app.openapi_schema, the lazily built schema cache
    pc,              \* per worker: "idle", "dispatched", "responded"
    req,             \* per worker: the request being served
    matched,         \* per worker: the endpoint the router chose
    resp,            \* per worker: the response produced
    first            \* the first completed GET "/" exchange

vars == <<module_pc, routes, openapi_schema, pc, req, matched, resp, first>>

appState == <<routes, openapi_schema>>

----------------------------------------------------------------------------
\* Paths and requests

RootPath == <<"/">>
DocsPath == <<"/", "docs">>
DocsSlashPath == <<"/", "docs", "/">>
OpenapiPath == <<"/", "openapi.json">>
RedocPath == <<"/", "redoc">>
OAuth2RedirectPath == <<"/", "docs", "/", "oauth2-redirect">>
HealthPath == <<"/", "health">>

Methods == {"GET", "HEAD", "POST", "PUT", "DELETE", "PATCH"}

Paths == {RootPath, DocsPath, DocsSlashPath, OpenapiPath, HealthPath}

\* Request contents the endpoint could look at: a query string, extra
\* headers, a body.
Queries == {"", "verbose=1"}
HeaderSets == {{}, {"X-Trace"}}
Bodies == {"", "payload"}

IsPlain(r) == r.query = "" /\ r.headers = {} /\ r.body = ""

IsGetRoot(r) == r.method = "GET" /\ r.path = RootPath

\* A GET "/" comes plain, with one kind of contents, or with all three.
VariedContents(r) ==
    Cardinality({ k \in {"query", "headers", "body"} :
                    \/ k = "query" /\ r.query # ""
                    \/ k = "headers" /\ r.headers # {}
                    \/ k = "body" /\ r.body # "" }) \in {0, 1, 3}

\* The requests the environment sends: GET "/" with varied contents, every
\* method on "/", GET on the other paths, POST on a routed and an unrouted
\* path.
Requests ==
    { r \in [method : Methods, path : Paths, query : Queries,
             headers : HeaderSets, body : Bodies] :
        \/ IsGetRoot(r) /\ VariedContents(r)
        \/ IsPlain(r) /\ r.path = RootPath
        \/ IsPlain(r) /\ r.method = "GET"
        \/ IsPlain(r) /\ r.method = "POST" /\ r.path \in {DocsPath, HealthPath} }

NoReq == [method |-> "", path |-> <<>>, query |-> "", headers |-> {}, body |-> ""]

NoResp == [status |-> 0, media |-> "", json |-> <<>>, body |-> ""]

NoFirst == [req |-> NoReq, resp |-> NoResp]

----------------------------------------------------------------------------
\* JSON rendering of a flat mapping of strings, as the JSON response class
\* does it: compact separators, keys in the mapping's order.

Quote(s) == "\"" \o s \o "\""

RECURSIVE RenderItems(_)
RenderItems(m) ==
    IF m = <<>> THEN ""
    ELSE Quote(m[1][1]) \o ":" \o Quote(m[1][2])
         \o (IF Len(m) > 1 THEN "," ELSE "") \o RenderItems(Tail(m))

RenderJson(m) == "{" \o RenderItems(m) \o "}"

JSONResponse(code, content) ==
    [status |-> code, media |-> "application/json", json |-> content,
     body |-> RenderJson(content)]

HTMLResponse(code, page) ==
    [status |-> code, media |-> "text/html", json |-> <<>>, body |-> page]

RedirectResponse ==
    [status |-> 307, media |-> "", json |-> <<>>, body |-> ""]

----------------------------------------------------------------------------
\* The application instance

Route(path, methods, endpoint) ==
    [path |-> path, methods |-> methods, endpoint |-> endpoint]

\* app = FastAPI(): the constructor's defaults install the schema and
\* documentation routes before any application route.
FastAPI ==
    << Route(OpenapiPath, {"GET", "HEAD"}, "openapi"),
       Route(DocsPath, {"GET", "HEAD"}, "swagger_ui_html"),
       Route(OAuth2RedirectPath, {"GET", "HEAD"}, "swagger_ui_redirect"),
       Route(RedocPath, {"GET", "HEAD"}, "redoc_html") >>

\* Variant: the route registered with @app.post("/").
read_root_route_post == Route(RootPath, {"POST"}, "read_root")

\* Variant: the route registered for every method.
read_root_route_any == Route(RootPath, Methods, "read_root")

\* @app.get("/") def read_root
read_root_route == Route(RootPath, {"GET"}, "read_root")

\* Variant: the two keys written in the other order.
read_root_swapped == << <<"status", "ok">>, <<"service", "api-python">> >>

\* def read_root(): return {"service": "api-python", "status": "ok"}
read_root == << <<"service", "api-python">>, <<"status", "ok">> >>

----------------------------------------------------------------------------
\* Routing, as the framework's router does it

\* Variant: a route matches every path that starts with its own.
MatchPathPrefix(route, path) ==
    /\ Len(route.path) <= Len(path)
    /\ SubSeq(path, 1, Len(route.path)) = route.path

\* A route's path has no parameters: its pattern matches that path only.
MatchPath(route, path) == route.path = path

\* Route.matches: FULL when path and method match, PARTIAL when only the
\* path does.
Matches(route, r) ==
    IF MatchPath(route, r.path)
    THEN IF r.method \in route.methods THEN "FULL" ELSE "PARTIAL"
    ELSE "NONE"

EndsWithSlash(path) == path # <<>> /\ path[Len(path)] = "/"

RECURSIVE RStripSlash(_)
RStripSlash(path) ==
    IF EndsWithSlash(path)
    THEN RStripSlash(SubSeq(path, 1, Len(path) - 1))
    ELSE path

\* redirect_slashes: the path with its trailing slashes removed, or with
\* one added.
RedirectPath(path) ==
    IF EndsWithSlash(path) THEN RStripSlash(path) ELSE Append(path, "/")

Min(S) == CHOOSE i \in S : \A j \in S : i <= j

\* Router.app: the first FULL match is served; else the first PARTIAL match
\* answers method-not-allowed; else a slash redirect when the other form of
\* the path is routed; else the default not-found.
Dispatch(rs, r) ==
    LET full == { i \in 1..Len(rs) : Matches(rs[i], r) = "FULL" }
        partial == { i \in 1..Len(rs) : Matches(rs[i], r) = "PARTIAL" }
        redirected == [r EXCEPT !.path = RedirectPath(r.path)]
    IN  IF full # {} THEN rs[Min(full)].endpoint
        ELSE IF partial # {} THEN "method_not_allowed"
        ELSE IF /\ r.path # RootPath
                /\ \E i \in 1..Len(rs) : Matches(rs[i], redirected) # "NONE"
             THEN "redirect_slashes"
        ELSE "not_found"

FrameworkEndpoints ==
    {"openapi", "swagger_ui_html", "swagger_ui_redirect", "redoc_html",
     "method_not_allowed", "redirect_slashes", "not_found"}

\* The framework's own answers.
FrameworkResponse(endpoint) ==
    CASE endpoint = "openapi" ->
           [status |-> 200, media |-> "application/json", json |-> <<>>,
            body |-> "<openapi schema>"]
      [] endpoint = "swagger_ui_html" -> HTMLResponse(200, "<swagger ui>")
      [] endpoint = "swagger_ui_redirect" -> HTMLResponse(200, "<oauth2 redirect>")
      [] endpoint = "redoc_html" -> HTMLResponse(200, "<redoc>")
      [] endpoint = "method_not_allowed" ->
           JSONResponse(405, << <<"detail", "Method Not Allowed">> >>)
      [] endpoint = "redirect_slashes" -> RedirectResponse
      [] endpoint = "not_found" ->
           JSONResponse(404, << <<"detail", "Not Found">> >>)

----------------------------------------------------------------------------
\* Actions

\* The state after `app = FastAPI()`; no request is served before the module
\* has finished loading.
Init ==
    /\ module_pc = "constructed"
    /\ routes = FastAPI
    /\ openapi_schema = "None"
    /\ pc = [w \in Workers |-> "idle"]
    /\ req = [w \in Workers |-> NoReq]
    /\ matched = [w \in Workers |-> ""]
    /\ resp = [w \in Workers |-> NoResp]
    /\ first = NoFirst

\* Variant: the endpoint registered under a second path as well.
RegisterReadRootTwice ==
    /\ module_pc = "constructed"
    /\ routes' = routes \o <<read_root_route, Route(HealthPath, {"GET"}, "read_root")>>
    /\ module_pc' = "loaded"
    /\ UNCHANGED <<openapi_schema, pc, req, matched, resp, first>>

\* @app.get("/"): the decorator appends the route for read_root.
RegisterReadRoot ==
    /\ module_pc = "constructed"
    /\ routes' = Append(routes, read_root_route)
    /\ module_pc' = "loaded"
    /\ UNCHANGED <<openapi_schema, pc, req, matched, resp, first>>

\* The server hands request r to the application, whose router picks the
\* endpoint.
Receive(w, r) ==
    /\ module_pc = "loaded"
    /\ pc[w] = "idle"
    /\ req' = [req EXCEPT ![w] = r]
    /\ matched' = [matched EXCEPT ![w] = Dispatch(routes, r)]
    /\ pc' = [pc EXCEPT ![w] = "dispatched"]
    /\ UNCHANGED <<module_pc, routes, openapi_schema, resp, first>>

\* Variant: the endpoint reports whether it has answered before.
ReadRootCounting(w) ==
    /\ pc[w] = "dispatched"
    /\ matched[w] = "read_root"
    /\ resp' = [resp EXCEPT ![w] =
                  JSONResponse(200, Append(read_root,
                      <<"seen", IF first = NoFirst THEN "no" ELSE "yes">>))]
    /\ pc' = [pc EXCEPT ![w] = "responded"]
    /\ UNCHANGED <<module_pc, routes, openapi_schema, req, matched, first>>

\* Variant: the endpoint builds the application's schema while answering.
ReadRootCaching(w) ==
    /\ pc[w] = "dispatched"
    /\ matched[w] = "read_root"
    /\ resp' = [resp EXCEPT ![w] = JSONResponse(200, read_root)]
    /\ openapi_schema' = "generated"
    /\ pc' = [pc EXCEPT ![w] = "responded"]
    /\ UNCHANGED <<module_pc, routes, req, matched, first>>

\* Variant: the endpoint reads the query string.
ReadRootEcho(w) ==
    /\ pc[w] = "dispatched"
    /\ matched[w] = "read_root"
    /\ resp' = [resp EXCEPT ![w] =
                  IF req[w].query = "" THEN JSONResponse(200, read_root)
                  ELSE JSONResponse(200, Append(read_root, <<"query", req[w].query>>))]
    /\ pc' = [pc EXCEPT ![w] = "responded"]
    /\ UNCHANGED <<module_pc, routes, openapi_schema, req, matched, first>>

\* Variant: the endpoint fills one mapping shared by all calls, so a call
\* that overlaps another returns it half filled.
ReadRootShared(w) ==
    /\ pc[w] = "dispatched"
    /\ matched[w] = "read_root"
    /\ resp' = [resp EXCEPT ![w] =
                  IF \E v \in Workers \ {w} :
                        pc[v] = "dispatched" /\ matched[v] = "read_root"
                  THEN JSONResponse(200, SubSeq(read_root, 1, 1))
                  ELSE JSONResponse(200, read_root)]
    /\ pc' = [pc EXCEPT ![w] = "responded"]
    /\ UNCHANGED <<module_pc, routes, openapi_schema, req, matched, first>>

\* Variant: the endpoint suspends on something that never completes.
ReadRootAwait(w) ==
    /\ pc[w] = "dispatched"
    /\ matched[w] = "read_root"
    /\ pc' = [pc EXCEPT ![w] = "waiting"]
    /\ UNCHANGED <<module_pc, routes, openapi_schema, req, matched, resp, first>>

\* The endpoint read_root runs and its return value is serialized with the
\* route's default status code.
ReadRoot(w) ==
    /\ pc[w] = "dispatched"
    /\ matched[w] = "read_root"
    /\ resp' = [resp EXCEPT ![w] = JSONResponse(200, read_root)]
    /\ pc' = [pc EXCEPT ![w] = "responded"]
    /\ UNCHANGED <<module_pc, routes, openapi_schema, req, matched, first>>

\* The framework answers a request that did not reach read_root. Serving the
\* schema builds it once and caches it on the application instance.
FrameworkHandle(w) ==
    /\ pc[w] = "dispatched"
    /\ matched[w] \in FrameworkEndpoints
    /\ resp' = [resp EXCEPT ![w] = FrameworkResponse(matched[w])]
    /\ openapi_schema' =
         IF matched[w] = "openapi" THEN "generated" ELSE openapi_schema
    /\ pc' = [pc EXCEPT ![w] = "responded"]
    /\ UNCHANGED <<module_pc, routes, req, matched, first>>

\* The response goes out and the worker is free again.
Send(w) ==
    /\ pc[w] = "responded"
    /\ first' = IF first = NoFirst /\ IsGetRoot(req[w])
                THEN [req |-> req[w], resp |-> resp[w]]
                ELSE first
    /\ pc' = [pc EXCEPT ![w] = "idle"]
    /\ req' = [req EXCEPT ![w] = NoReq]
    /\ matched' = [matched EXCEPT ![w] = ""]
    /\ resp' = [resp EXCEPT ![w] = NoResp]
    /\ UNCHANGED <<module_pc, routes, openapi_schema>>

Next ==
    \/ RegisterReadRoot
    \/ \E w \in Workers, r \in Requests : Receive(w, r)
    \/ \E w \in Workers : ReadRoot(w)
    \/ \E w \in Workers : FrameworkHandle(w)
    \/ \E w \in Workers : Send(w)

Spec == Init /\ [][Next]_vars

\* The requests of the fair runs: contents play no part in scheduling, so
\* these are plain GETs on every path and a POST on "/".
LiveRequests ==
    { r \in Requests :
        /\ IsPlain(r)
        /\ r.method = "GET" \/ (r.method = "POST" /\ r.path = RootPath) }

FairNext ==
    \/ RegisterReadRoot
    \/ \E w \in Workers, r \in LiveRequests : Receive(w, r)
    \/ \E w \in Workers : ReadRoot(w)
    \/ \E w \in Workers : FrameworkHandle(w)
    \/ \E w \in Workers : Send(w)

\* The host server runs every dispatched request and sends every response.
FairSpec ==
    /\ Init /\ [][FairNext]_vars
    /\ \A w \in Workers :
         WF_vars(ReadRoot(w)) /\ WF_vars(FrameworkHandle(w)) /\ WF_vars(Send(w))

TypeOK ==
    /\ module_pc \in {"constructed", "loaded"}
    /\ openapi_schema \in {"None", "generated"}
    /\ pc \in [Workers -> {"idle", "dispatched", "responded"}]
    /\ \A w \in Workers :
         /\ req[w] \in Requests \cup {NoReq}
         /\ matched[w] \in FrameworkEndpoints \cup {"read_root", ""}
         /\ pc[w] = "idle" <=> req[w] = NoReq

----------------------------------------------------------------------------
\* Properties

Loaded == module_pc = "loaded"

Busy(w) == pc[w] # "idle"

Answered(w) == pc[w] = "responded"

HealthMapping == << <<"service", "api-python">>, <<"status", "ok">> >>

HealthBody == "{\"service\":\"api-python\",\"status\":\"ok\"}"

IsHealthResponse(x) == x.status = 200 /\ x.json = HealthMapping /\ x.body = HealthBody

\* The paths the framework routes by itself.
FrameworkPaths == {OpenapiPath, DocsPath, OAuth2RedirectPath, RedocPath}

\* The route table a loaded application has: the framework's routes, then
\* the one application route.
LoadedRoutes ==
    << Route(OpenapiPath, {"GET", "HEAD"}, "openapi"),
       Route(DocsPath, {"GET", "HEAD"}, "swagger_ui_html"),
       Route(OAuth2RedirectPath, {"GET", "HEAD"}, "swagger_ui_redirect"),
       Route(RedocPath, {"GET", "HEAD"}, "redoc_html"),
       Route(RootPath, {"GET"}, "read_root") >>

\* C1: every answer to GET "/", whatever was served before it, carries
\* exactly the mapping service -> "api-python", status -> "ok": two keys,
\* service first, status second, both values non-empty, nothing else; its
\* bytes are that mapping's compact JSON text.
C1_BodyExact ==
    \A w \in Workers :
        Answered(w) /\ IsGetRoot(req[w]) =>
            /\ Len(resp[w].json) = 2
            /\ resp[w].json[1][1] = "service"
            /\ resp[w].json[2][1] = "status"
            /\ resp[w].json[1][2] = "api-python"
            /\ resp[w].json[2][2] = "ok"
            /\ \A i \in 1..Len(resp[w].json) : resp[w].json[i][2] # ""
            /\ resp[w].json = HealthMapping
            /\ resp[w].body = HealthBody

\* A GET "/" is answered after an earlier GET "/" and a schema request
\* have been served.
C1_Witness ==
    /\ first # NoFirst
    /\ openapi_schema = "generated"
    /\ \E w \in Workers : Answered(w) /\ IsGetRoot(req[w]) /\ resp[w].body = HealthBody

\* C2: every answer to GET "/" has status 200.
C2_Status200 ==
    /\ \A w \in Workers : Answered(w) /\ IsGetRoot(req[w]) => resp[w].status = 200
    /\ first # NoFirst => first.resp.status = 200

C2_Witness ==
    \E w \in Workers :
        Answered(w) /\ IsGetRoot(req[w]) /\ IsPlain(req[w]) /\ resp[w].status = 200

\* C3: every answer to a request identical to an earlier GET "/" equals the
\* first answer to it, status and bytes, and two identical GET "/" requests
\* in flight together get equal answers.
C3_Idempotent ==
    /\ \A w \in Workers :
           Answered(w) /\ first # NoFirst /\ req[w] = first.req =>
               resp[w] = first.resp
    /\ \A v, w \in Workers :
           Answered(v) /\ Answered(w) /\ IsGetRoot(req[v]) /\ req[v] = req[w] =>
               resp[v] = resp[w]

\* The request that was answered first is answered again.
C3_Witness ==
    \E w \in Workers :
        /\ first # NoFirst
        /\ Answered(w)
        /\ req[w] = first.req
        /\ resp[w].status = first.resp.status
        /\ resp[w].body = first.resp.body

C7_ContentsIgnored ==
    /\ \A v, w \in Workers :
           Answered(v) /\ Answered(w) /\ IsGetRoot(req[v]) /\ IsGetRoot(req[w]) =>
               resp[v] = resp[w]
    /\ \A w \in Workers :
           Answered(w) /\ IsGetRoot(req[w]) /\ first # NoFirst =>
               resp[w] = first.resp

\* Two answered GET "/" requests differ in query, headers and body.
C7_Witness ==
    \E v, w \in Workers :
        /\ Answered(v) /\ Answered(w)
        /\ IsGetRoot(req[v]) /\ IsGetRoot(req[w])
        /\ req[v].query # req[w].query
        /\ req[v].headers # req[w].headers
        /\ req[v].body # req[w].body

\* C8: a GET "/" served while other requests are in flight is answered 200
\* with the whole health body, whichever way the steps interleave.
C8_Concurrent ==
    \A w \in Workers :
        /\ Answered(w)
        /\ IsGetRoot(req[w])
        /\ \E v \in Workers \ {w} : Busy(v)
        => IsHealthResponse(resp[w])

\* Every worker holds a GET "/" at once; one is answered, another is not yet.
C8_Witness ==
    /\ \A w \in Workers : Busy(w) /\ IsGetRoot(req[w])
    /\ \E v, w \in Workers :
           pc[v] = "responded" /\ pc[w] = "dispatched" /\ IsHealthResponse(resp[v])

\* C9: a free worker of the loaded application can always take a GET "/";
\* a request dispatched to read_root is answered by its next step; and,
\* the server being fair, every accepted GET "/" is answered.
C9_Synchronous ==
    /\ [](\A w \in Workers, r \in Requests :
             Loaded /\ pc[w] = "idle" /\ IsGetRoot(r) => ENABLED Receive(w, r))
    /\ [][\A w \in Workers :
             pc[w] = "dispatched" /\ matched[w] = "read_root" /\ pc'[w] # pc[w] =>
                 pc'[w] = "responded" /\ IsHealthResponse(resp'[w])]_vars
    /\ \A w \in Workers :
           (pc[w] = "dispatched" /\ IsGetRoot(req[w])) ~> (pc[w] = "responded")

\* A GET "/" has been answered and its worker is free again.
C9_Witness ==
    /\ first # NoFirst
    /\ IsHealthResponse(first.resp)
    /\ \A w \in Workers : pc[w] = "idle"

\* C10: a request to "/" with a method other than GET never reaches
\* read_root and never gets the 200 health response.
C10_GetOnly ==
    \A w \in Workers :
        Busy(w) /\ req[w].path = RootPath /\ req[w].method # "GET" =>
            /\ matched[w] # "read_root"
            /\ Answered(w) => ~IsHealthResponse(resp[w]) /\ resp[w].status # 200

\* POST "/" has been answered, and not by read_root.
C10_Witness ==
    \E w \in Workers :
        /\ Answered(w)
        /\ req[w].path = RootPath
        /\ req[w].method = "POST"
        /\ matched[w] = "method_not_allowed"
        /\ resp[w].status = 405

====
